---- MODULE Spec2Model ----
(***************************************************************************)
(* Zone transfer (AXFR/IXFR) client of xfr.go: Transfer.In dials and       *)
(* starts the inbound worker Transfer.InAxfr, which pulls messages with    *)
(* Transfer.ReadMsg and hands Envelopes to the caller over an unbuffered   *)
(* channel.                                                                *)
(***************************************************************************)
EXTENDS Naturals, Sequences, FiniteSets, TLC

\* ---- bounds ----
MaxMsgs == 3   \* frames the server delivers in one transfer
MaxAns  == 2   \* records in one answer section
MaxCalls == 3  \* ReadMsg/WriteMsg calls made on one session
MaxEnvs  == 3  \* Envelopes a zone producer feeds to the responder

\* ---- values ----
Nil == "nil"

TypeSOA  == "SOA"
TypeA    == "A"
TypeAXFR == "AXFR"
TypeIXFR == "IXFR"

ErrId     == "ErrId"
ErrSoa    == "ErrSoa"
ErrSecret == "ErrSecret"
ErrSig    == "ErrSig"      \* what TsigVerify returns on a bad MAC
ErrUnpack == "ErrUnpack"   \* what Msg.Unpack returns on undecodable bytes
ErrRead   == "ErrRead"     \* what Conn.Read returns on a transport failure
ErrWrite  == "ErrWrite"    \* what Conn.Write returns on a transport failure
ErrGen    == "ErrGen"      \* what TsigGenerate returns when it cannot sign

\* Record types the worker can tell apart: SOA or not.
RRtypes == {TypeSOA, TypeA}
\* Query types of Question[0].
Qtypes == {TypeAXFR, TypeIXFR, TypeA}
\* Message identifiers (q.Id and in.Id).
Ids == {42, 99}
\* The key store t.TsigSecret holds a secret for these signer names only.
TsigSecret == {"axfr."}

RECURSIVE SeqsUpTo(_, _)
SeqsUpTo(S, n) ==
  IF n = 0 THEN {<< >>}
  ELSE LET shorter == SeqsUpTo(S, n - 1)
       IN shorter \cup {Append(s, x) : s \in {t \in shorter : Len(t) = n - 1}, x \in S}

\* Answer sections of a Msg.
Answers == SeqsUpTo(RRtypes, MaxAns)

\* TSIG record of a message as Msg.IsTsig reports it: none, or a signer name
\* together with whether TsigVerify accepts the MAC.
NoTsig == [signed |-> FALSE, name |-> Nil, valid |-> FALSE]
Tsigs == {NoTsig}
         \cup {[signed |-> TRUE, name |-> "other.", valid |-> TRUE]}
         \cup {[signed |-> TRUE, name |-> "axfr.", valid |-> v] : v \in BOOLEAN}

\* What one Conn.Read can deliver: n bytes (0 or some), an error or not, and
\* when there are bytes, whether they unpack and into which message.
NoMsg == [Id |-> 0, Answer |-> << >>, tsig |-> NoTsig]
Msgs == [Id : Ids, Answer : Answers, tsig : Tsigs]
Frames ==
  {[n |-> 0, rerr |-> TRUE, unpacks |-> FALSE, m |-> NoMsg]}
  \cup {[n |-> 1, rerr |-> e, unpacks |-> FALSE, m |-> NoMsg] : e \in BOOLEAN}
  \cup {[n |-> 1, rerr |-> e, unpacks |-> TRUE, m |-> msg] : e \in BOOLEAN, msg \in Msgs}

\* The request In is called with, as far as the worker uses it: its Id.
q == [Id |-> 42]

\* Nothing read yet.
NoFrame == [n |-> 0, rerr |-> FALSE]

VARIABLES
  inCalled,        \* In has been called
  inErr,           \* what In returned: Nil or an error ("pending" before)
  workers,         \* number of InAxfr goroutines started
  dialed,          \* the connection In dialed (co.Conn): "none", "open", "closed"
  tConn,           \* the Transfer's own connection t.Conn: "open", "closed"
  connCloses,      \* number of t.Close() calls
  tsigTimersOnly,  \* t.tsigTimersOnly
  first,           \* InAxfr's local first
  pc,              \* where the worker is
  pending,         \* the Envelope the worker is blocked sending
  returning,       \* the worker returns after the pending send
  panicked,        \* the worker goroutine is unwinding from a panic
  chanCloses,      \* number of close(c) calls
  consumer,        \* the caller's loop: "ranging", "gone", "finished"
  wire,            \* what the latest Conn.Read returned: n and err
  reads,           \* history: what every ReadMsg call of the worker returned, in order
  sent,            \* history: every Envelope handed over the channel, in order
  tsigRequestMAC,  \* t.tsigRequestMAC
  lastGood,        \* history: MAC of the latest signed message a call processed successfully
  lastCall,        \* history: the latest ReadMsg/WriteMsg call made directly on the session
  nCalls,          \* number of such calls
  outPc,           \* Out's goroutine: "none", "ranging", "stopped", "ended"
  rAnswer,         \* r.Answer of the reply Out builds
  replies,         \* history: every w.WriteMsg(r) of the responder, in order
  fed,             \* history: every Envelope the responder received, in order
  offer,           \* the Envelope the producer is blocked sending
  chClosed         \* the producer has closed the channel Out returned

sessVars == <<tsigRequestMAC, lastGood, lastCall, nCalls>>
outVars == <<outPc, rAnswer, replies, fed, offer, chClosed>>
inVars == <<inCalled, inErr, workers, dialed, tConn, connCloses,
            first, pc, pending, returning, panicked,
            chanCloses, consumer, wire, reads, sent>>

vars == <<inVars, tsigTimersOnly, sessVars, outVars>>

NoEnv == [RR |-> << >>, Error |-> Nil, some |-> FALSE]
Envelope(rr, err) == [RR |-> rr, Error |-> err, some |-> TRUE]

\* Variant: an empty answer section passes the leading-SOA test.
isSOAFirst_EmptyPasses(in) ==
  IF Len(in.Answer) > 0 THEN in.Answer[1] = TypeSOA ELSE TRUE

isSOAFirst(in) ==
  IF Len(in.Answer) > 0 THEN in.Answer[1] = TypeSOA ELSE FALSE

\* Variant: the closing test looks at the first record.
isSOALast_LooksAtFirst(in) ==
  IF Len(in.Answer) > 0 THEN in.Answer[1] = TypeSOA ELSE FALSE

\* Variant: an empty answer section counts as ending in a SOA.
isSOALast_EmptyCloses(in) ==
  IF Len(in.Answer) > 0 THEN in.Answer[Len(in.Answer)] = TypeSOA ELSE TRUE

isSOALast(in) ==
  IF Len(in.Answer) > 0 THEN in.Answer[Len(in.Answer)] = TypeSOA ELSE FALSE

\* TsigVerify(p, secret, requestMAC, timersOnly): nil or an error.
TsigVerify(ts, timersOnly) == IF ts.valid THEN Nil ELSE ErrSig

\* Transfer.ReadMsg on frame f.  The guard of the TSIG branch is `t != nil`,
\* true for every receiver, so an unsigned message dereferences the nil ts.
ReadMsg(f, timersOnly) ==
  IF f.rerr /\ f.n = 0
    THEN [out |-> "ret", hasMsg |-> FALSE, m |-> NoMsg, err |-> ErrRead, verified |-> FALSE]
  ELSE IF ~f.unpacks
    THEN [out |-> "ret", hasMsg |-> FALSE, m |-> NoMsg, err |-> ErrUnpack, verified |-> FALSE]
  ELSE IF ~f.m.tsig.signed
    THEN [out |-> "panic", hasMsg |-> FALSE, m |-> NoMsg, err |-> Nil, verified |-> FALSE]
  ELSE IF f.m.tsig.name \notin TsigSecret
    THEN [out |-> "ret", hasMsg |-> TRUE, m |-> f.m, err |-> ErrSecret, verified |-> FALSE]
  ELSE [out |-> "ret", hasMsg |-> TRUE, m |-> f.m,
        err |-> TsigVerify(f.m.tsig, timersOnly), verified |-> TRUE]

\* Variant: the leading-SOA test runs before the identifier test.
InAxfrBody_SoaBeforeId(id, fst, timers, in, err) ==
  IF err # Nil
    THEN [env |-> Envelope(<< >>, err), ret |-> TRUE, first |-> fst, timers |-> timers]
  ELSE IF fst /\ ~isSOAFirst(in)
    THEN [env |-> Envelope(in.Answer, ErrSoa), ret |-> TRUE, first |-> fst, timers |-> timers]
  ELSE IF id # in.Id
    THEN [env |-> Envelope(in.Answer, ErrId), ret |-> TRUE, first |-> fst, timers |-> timers]
  ELSE IF fst /\ Len(in.Answer) = 1
    THEN [env |-> Envelope(in.Answer, Nil), ret |-> FALSE, first |-> FALSE, timers |-> TRUE]
  ELSE [env |-> Envelope(in.Answer, Nil), ret |-> isSOALast(in), first |-> FALSE, timers |-> TRUE]

\* Variant: the lone opening SOA falls through to the closing test.
InAxfrBody_LoneSoaCloses(id, fst, timers, in, err) ==
  IF err # Nil
    THEN [env |-> Envelope(<< >>, err), ret |-> TRUE, first |-> fst, timers |-> timers]
  ELSE IF id # in.Id
    THEN [env |-> Envelope(in.Answer, ErrId), ret |-> TRUE, first |-> fst, timers |-> timers]
  ELSE IF fst /\ ~isSOAFirst(in)
    THEN [env |-> Envelope(in.Answer, ErrSoa), ret |-> TRUE, first |-> fst, timers |-> timers]
  ELSE IF fst /\ Len(in.Answer) = 1
    THEN [env |-> Envelope(in.Answer, Nil), ret |-> isSOALast(in), first |-> FALSE, timers |-> TRUE]
  ELSE [env |-> Envelope(in.Answer, Nil), ret |-> isSOALast(in), first |-> FALSE, timers |-> TRUE]

\* Variant: the first message always continues, whatever its length.
InAxfrBody_FirstContinues(id, fst, timers, in, err) ==
  IF err # Nil
    THEN [env |-> Envelope(<< >>, err), ret |-> TRUE, first |-> fst, timers |-> timers]
  ELSE IF id # in.Id
    THEN [env |-> Envelope(in.Answer, ErrId), ret |-> TRUE, first |-> fst, timers |-> timers]
  ELSE IF fst /\ ~isSOAFirst(in)
    THEN [env |-> Envelope(in.Answer, ErrSoa), ret |-> TRUE, first |-> fst, timers |-> timers]
  ELSE IF fst /\ Len(in.Answer) >= 1
    THEN [env |-> Envelope(in.Answer, Nil), ret |-> FALSE, first |-> FALSE, timers |-> TRUE]
  ELSE [env |-> Envelope(in.Answer, Nil), ret |-> isSOALast(in), first |-> FALSE, timers |-> TRUE]

\* Variant: the missing-SOA branch sends its Envelope and does not return.
InAxfrBody_SoaErrContinues(id, fst, timers, in, err) ==
  IF err # Nil
    THEN [env |-> Envelope(<< >>, err), ret |-> TRUE, first |-> fst, timers |-> timers]
  ELSE IF id # in.Id
    THEN [env |-> Envelope(in.Answer, ErrId), ret |-> TRUE, first |-> fst, timers |-> timers]
  ELSE IF fst /\ ~isSOAFirst(in)
    THEN [env |-> Envelope(in.Answer, ErrSoa), ret |-> FALSE, first |-> fst, timers |-> timers]
  ELSE IF fst /\ Len(in.Answer) = 1
    THEN [env |-> Envelope(in.Answer, Nil), ret |-> FALSE, first |-> FALSE, timers |-> TRUE]
  ELSE [env |-> Envelope(in.Answer, Nil), ret |-> isSOALast(in), first |-> FALSE, timers |-> TRUE]

\* Variant: tsigTimersOnly is set before the identifier test.
InAxfrBody_TimersEarly(id, fst, timers, in, err) ==
  IF err # Nil
    THEN [env |-> Envelope(<< >>, err), ret |-> TRUE, first |-> fst, timers |-> timers]
  ELSE IF id # in.Id
    THEN [env |-> Envelope(in.Answer, ErrId), ret |-> TRUE, first |-> fst, timers |-> TRUE]
  ELSE IF fst /\ ~isSOAFirst(in)
    THEN [env |-> Envelope(in.Answer, ErrSoa), ret |-> TRUE, first |-> fst, timers |-> timers]
  ELSE IF fst /\ Len(in.Answer) = 1
    THEN [env |-> Envelope(in.Answer, Nil), ret |-> FALSE, first |-> FALSE, timers |-> TRUE]
  ELSE [env |-> Envelope(in.Answer, Nil), ret |-> isSOALast(in), first |-> FALSE, timers |-> TRUE]

\* Variant: the read-failure Envelope carries the decoded answer section.
InAxfrBody_ErrCarriesAnswer(id, fst, timers, in, err) ==
  IF err # Nil
    THEN [env |-> Envelope(in.Answer, err), ret |-> TRUE, first |-> fst, timers |-> timers]
  ELSE IF id # in.Id
    THEN [env |-> Envelope(in.Answer, ErrId), ret |-> TRUE, first |-> fst, timers |-> timers]
  ELSE IF fst /\ ~isSOAFirst(in)
    THEN [env |-> Envelope(in.Answer, ErrSoa), ret |-> TRUE, first |-> fst, timers |-> timers]
  ELSE IF fst /\ Len(in.Answer) = 1
    THEN [env |-> Envelope(in.Answer, Nil), ret |-> FALSE, first |-> FALSE, timers |-> TRUE]
  ELSE [env |-> Envelope(in.Answer, Nil), ret |-> isSOALast(in), first |-> FALSE, timers |-> TRUE]

\* One pass of InAxfr's loop body after ReadMsg returned (in, err): the
\* Envelope it sends, whether it returns after the send, and the new values
\* of first and t.tsigTimersOnly.
InAxfrBody(id, fst, timers, in, err) ==
  IF err # Nil
    THEN [env |-> Envelope(<< >>, err), ret |-> TRUE, first |-> fst, timers |-> timers]
  ELSE IF id # in.Id
    THEN [env |-> Envelope(in.Answer, ErrId), ret |-> TRUE, first |-> fst, timers |-> timers]
  ELSE IF fst /\ ~isSOAFirst(in)
    THEN [env |-> Envelope(in.Answer, ErrSoa), ret |-> TRUE, first |-> fst, timers |-> timers]
  ELSE IF fst /\ Len(in.Answer) = 1
    THEN [env |-> Envelope(in.Answer, Nil), ret |-> FALSE, first |-> FALSE, timers |-> TRUE]
  ELSE [env |-> Envelope(in.Answer, Nil), ret |-> isSOALast(in), first |-> FALSE, timers |-> TRUE]

\* ---- the session's TSIG chain ----
\* No MAC stored yet.
NoMAC == << >>
\* The MAC of message m under a secret, chained to the previous MAC.
TsigMAC(m, secret, requestMAC, timersOnly) ==
  <<m.Id, m.Answer, secret, requestMAC, timersOnly>>
\* Bytes on the wire: the message, and for a signed one the signer and MAC.
NoBytes == [some |-> FALSE, Id |-> 0, Answer |-> << >>, signed |-> FALSE,
            name |-> Nil, mac |-> NoMAC]
\* Msg.Pack of an unsigned message.
Pack(m) == [some |-> TRUE, Id |-> m.Id, Answer |-> m.Answer, signed |-> FALSE,
            name |-> Nil, mac |-> NoMAC]
\* TsigGenerate(m, secret, requestMAC, timersOnly): bytes, new MAC, error.
TsigGenerate(m, secret, requestMAC, timersOnly, ok) ==
  IF ok
    THEN [bytes |-> [some |-> TRUE, Id |-> m.Id, Answer |-> m.Answer, signed |-> TRUE,
                     name |-> m.tsig.name,
                     mac |-> TsigMAC(m, secret, requestMAC, timersOnly)],
          mac |-> TsigMAC(m, secret, requestMAC, timersOnly), err |-> Nil]
    ELSE [bytes |-> NoBytes, mac |-> NoMAC, err |-> ErrGen]
\* What Conn.Read and Msg.Unpack make of bytes b on a session whose chain
\* state is (requestMAC, timersOnly); valid is the verdict TsigVerify gives.
Received(b, rerr, requestMAC, timersOnly) ==
  [n |-> 1, rerr |-> rerr, unpacks |-> TRUE,
   m |-> [Id |-> b.Id, Answer |-> b.Answer,
          tsig |-> IF b.signed
                     THEN [signed |-> TRUE, name |-> b.name,
                           valid |-> b.mac = TsigMAC(b, b.name, requestMAC, timersOnly)]
                     ELSE NoTsig]]

NoWrite == [out |-> "none", err |-> Nil, mac |-> NoMAC, bytes |-> NoBytes, wrote |-> FALSE]
NoRead == [out |-> "none", hasMsg |-> FALSE, m |-> NoMsg, err |-> Nil, verified |-> FALSE]

\* Variant: the message is always signed in full, whatever t.tsigTimersOnly.
WriteMsg_SignsInFull(m, requestMAC, timersOnly, genOK, writeOK) ==
  IF ~m.tsig.signed
    THEN [out |-> "panic", err |-> Nil, mac |-> requestMAC, bytes |-> NoBytes, wrote |-> FALSE]
  ELSE IF m.tsig.name \notin TsigSecret
    THEN [out |-> "ret", err |-> ErrSecret, mac |-> requestMAC, bytes |-> NoBytes, wrote |-> FALSE]
  ELSE LET g == TsigGenerate(m, m.tsig.name, requestMAC, FALSE, genOK)
       IN IF g.err # Nil
            THEN [out |-> "ret", err |-> g.err, mac |-> g.mac, bytes |-> NoBytes, wrote |-> FALSE]
            ELSE [out |-> "ret", err |-> IF writeOK THEN Nil ELSE ErrWrite,
                  mac |-> g.mac, bytes |-> g.bytes, wrote |-> writeOK]

\* Variant: the message is signed before the key store is consulted.
WriteMsg_SignsBeforeLookup(m, requestMAC, timersOnly, genOK, writeOK) ==
  IF ~m.tsig.signed
    THEN [out |-> "panic", err |-> Nil, mac |-> requestMAC, bytes |-> NoBytes, wrote |-> FALSE]
  ELSE LET g == TsigGenerate(m, m.tsig.name, requestMAC, timersOnly, genOK)
       IN IF m.tsig.name \notin TsigSecret
            THEN [out |-> "ret", err |-> ErrSecret, mac |-> g.mac, bytes |-> NoBytes, wrote |-> FALSE]
          ELSE IF g.err # Nil
            THEN [out |-> "ret", err |-> g.err, mac |-> g.mac, bytes |-> NoBytes, wrote |-> FALSE]
            ELSE [out |-> "ret", err |-> IF writeOK THEN Nil ELSE ErrWrite,
                  mac |-> g.mac, bytes |-> g.bytes, wrote |-> writeOK]

\* Transfer.WriteMsg(m): what it returns, the MAC it leaves in
\* t.tsigRequestMAC, the bytes it built and whether they reached the
\* transport.  As in ReadMsg the TSIG branch is guarded by `t != nil`, so an
\* unsigned message dereferences the nil ts and the Pack branch is never taken.
WriteMsg(m, requestMAC, timersOnly, genOK, writeOK) ==
  IF ~m.tsig.signed
    THEN [out |-> "panic", err |-> Nil, mac |-> requestMAC, bytes |-> NoBytes, wrote |-> FALSE]
  ELSE IF m.tsig.name \notin TsigSecret
    THEN [out |-> "ret", err |-> ErrSecret, mac |-> requestMAC, bytes |-> NoBytes, wrote |-> FALSE]
  ELSE LET g == TsigGenerate(m, m.tsig.name, requestMAC, timersOnly, genOK)
       IN IF g.err # Nil
            THEN [out |-> "ret", err |-> g.err, mac |-> g.mac, bytes |-> NoBytes, wrote |-> FALSE]
            ELSE [out |-> "ret", err |-> IF writeOK THEN Nil ELSE ErrWrite,
                  mac |-> g.mac, bytes |-> g.bytes, wrote |-> writeOK]

\* No call made on the session yet.
NoCall == [op |-> "none", decoded |-> FALSE, signed |-> FALSE, name |-> Nil,
           rerr |-> FALSE, msgMAC |-> NoMAC, macBefore |-> NoMAC,
           timersBefore |-> FALSE, w |-> NoWrite, r |-> NoRead, rt |-> NoRead]

SessIdle ==
  /\ tsigRequestMAC = NoMAC
  /\ lastGood = NoMAC
  /\ lastCall = NoCall
  /\ nCalls = 0

OutIdle ==
  /\ outPc = "none"
  /\ rAnswer = << >>
  /\ replies = << >>
  /\ fed = << >>
  /\ offer = NoEnv
  /\ chClosed = FALSE

InIdle ==
  /\ inCalled = FALSE
  /\ inErr = "pending"
  /\ workers = 0
  /\ dialed = "none"
  /\ tConn = "open"
  /\ connCloses = 0
  /\ first = TRUE
  /\ pc = "idle"
  /\ pending = NoEnv
  /\ returning = FALSE
  /\ panicked = FALSE
  /\ chanCloses = 0
  /\ consumer = "ranging"
  /\ wire = NoFrame
  /\ reads = << >>
  /\ sent = << >>

Init ==
  /\ inCalled = FALSE
  /\ inErr = "pending"
  /\ workers = 0
  /\ dialed = "none"
  /\ tConn = "open"
  /\ connCloses = 0
  /\ tsigTimersOnly = FALSE
  /\ first = TRUE
  /\ pc = "idle"
  /\ pending = NoEnv
  /\ returning = FALSE
  /\ panicked = FALSE
  /\ chanCloses = 0
  /\ consumer = "ranging"
  /\ wire = NoFrame
  /\ reads = << >>
  /\ sent = << >>
  /\ SessIdle
  /\ OutIdle

\* Transfer.In(q, a, env): dial, then start the worker for AXFR and IXFR.
In ==
  /\ ~inCalled
  /\ inCalled' = TRUE
  /\ \E dialOK \in BOOLEAN, qtype \in Qtypes :
       IF ~dialOK
         THEN /\ inErr' = "ErrDial"
              /\ UNCHANGED <<dialed, workers, pc>>
         ELSE /\ dialed' = "open"
              /\ inErr' = Nil
              /\ IF qtype = TypeAXFR \/ qtype = TypeIXFR
                   THEN workers' = workers + 1 /\ pc' = "read"
                   ELSE UNCHANGED <<workers, pc>>
  /\ UNCHANGED <<tConn, connCloses, tsigTimersOnly, first, pending,
                 returning, panicked, chanCloses, consumer, wire, reads, sent>>
  /\ UNCHANGED <<sessVars, outVars>>

\* InAxfr, from the top of the loop to the channel send (or the panic in
\* ReadMsg): read one message and classify it.
InAxfrRead ==
  /\ pc = "read"
  /\ Len(reads) < MaxMsgs
  /\ \E f \in Frames :
       LET r == ReadMsg(f, tsigTimersOnly)
           b == InAxfrBody(q.Id, first, tsigTimersOnly, r.m, r.err)
       IN /\ wire' = [n |-> f.n, rerr |-> f.rerr]
          /\ reads' = Append(reads, [r |-> r, timersOnly |-> tsigTimersOnly])
          /\ IF r.out = "panic"
               THEN /\ panicked' = TRUE
                    /\ pc' = "closeChan"
                    /\ UNCHANGED <<pending, returning, first, tsigTimersOnly>>
               ELSE /\ pending' = b.env
                    /\ returning' = b.ret
                    /\ first' = b.first
                    /\ tsigTimersOnly' = b.timers
                    /\ pc' = "send"
                    /\ UNCHANGED panicked
  /\ UNCHANGED <<inCalled, inErr, workers, dialed, tConn, connCloses,
                 chanCloses, consumer, sent>>
  /\ UNCHANGED <<sessVars, outVars>>

\* c <- &Envelope{...}: the unbuffered send completes when the caller's
\* range loop receives it.
Send ==
  /\ pc = "send"
  /\ consumer = "ranging"
  /\ sent' = Append(sent, pending)
  /\ pending' = NoEnv
  /\ pc' = IF returning THEN "closeChan" ELSE "read"
  /\ UNCHANGED <<inCalled, inErr, workers, dialed, tConn, connCloses,
                 tsigTimersOnly, first, returning, panicked, chanCloses,
                 consumer, wire, reads>>
  /\ UNCHANGED <<sessVars, outVars>>

\* defer close(c)
CloseChan ==
  /\ pc = "closeChan"
  /\ chanCloses' = chanCloses + 1
  /\ pc' = "closeConn"
  /\ UNCHANGED <<inCalled, inErr, workers, dialed, tConn, connCloses,
                 tsigTimersOnly, first, pending, returning, panicked,
                 consumer, wire, reads, sent>>
  /\ UNCHANGED <<sessVars, outVars>>

\* Variant: the worker returns without closing the connection.
CloseConn_Forgotten ==
  /\ pc = "closeConn"
  /\ pc' = IF panicked THEN "crashed" ELSE "done"
  /\ UNCHANGED <<inCalled, inErr, workers, dialed, tConn, connCloses, chanCloses,
                 tsigTimersOnly, first, pending, returning, panicked,
                 consumer, wire, reads, sent>>
  /\ UNCHANGED <<sessVars, outVars>>

\* defer t.Close()
CloseConn ==
  /\ pc = "closeConn"
  /\ tConn' = "closed"
  /\ connCloses' = connCloses + 1
  /\ pc' = IF panicked THEN "crashed" ELSE "done"
  /\ UNCHANGED <<inCalled, inErr, workers, dialed, chanCloses,
                 tsigTimersOnly, first, pending, returning, panicked,
                 consumer, wire, reads, sent>>
  /\ UNCHANGED <<sessVars, outVars>>

\* The caller's `for env := range c` ends when it sees the channel closed.
ConsumerDone ==
  /\ consumer = "ranging"
  /\ chanCloses > 0
  /\ consumer' = "finished"
  /\ UNCHANGED <<inCalled, inErr, workers, dialed, tConn, connCloses,
                 tsigTimersOnly, first, pc, pending, returning, panicked,
                 chanCloses, wire, reads, sent>>
  /\ UNCHANGED <<sessVars, outVars>>

\* The caller stops receiving before the channel is closed.
ConsumerStop ==
  /\ consumer = "ranging"
  /\ chanCloses = 0
  /\ consumer' = "gone"
  /\ UNCHANGED <<inCalled, inErr, workers, dialed, tConn, connCloses,
                 tsigTimersOnly, first, pc, pending, returning, panicked,
                 chanCloses, wire, reads, sent>>
  /\ UNCHANGED <<sessVars, outVars>>

Next ==
  \/ In
  \/ InAxfrRead
  \/ Send
  \/ CloseChan
  \/ CloseConn
  \/ ConsumerDone
  \/ ConsumerStop

Spec == Init /\ [][Next]_vars

\* The worker goroutine is scheduled, and a caller still ranging over the
\* channel takes what is offered.
FairSpec ==
  Spec /\ WF_vars(Send) /\ WF_vars(CloseChan) /\ WF_vars(CloseConn)

\* ---- ReadMsg and WriteMsg called on one session ----
\* Messages handed to WriteMsg, or sent by the peer: unsigned, signed under a
\* name of the key store, signed under a name that is not in it.
SessMsgs == [Id : Ids, Answer : {<<TypeSOA>>}, tsig : {ts \in Tsigs : ts.signed => ts.valid}]
\* The chain state a session starts from: no MAC, or the MAC of its request.
SessInitMACs == {NoMAC, TsigMAC(q @@ [Answer |-> << >>], "axfr.", NoMAC, FALSE)}
\* Bytes a peer can send: unsigned, or signed for some chain state of its own.
PeerBytes(requestMAC) ==
  {Pack(m) : m \in {x \in SessMsgs : ~x.tsig.signed}}
  \cup {TsigGenerate(m, m.tsig.name, prev, pt, TRUE).bytes :
          m \in {x \in SessMsgs : x.tsig.signed}, prev \in {requestMAC, NoMAC}, pt \in BOOLEAN}
\* What a Conn.Read on the session can deliver, with the bytes it came from.
SessReads(requestMAC, timersOnly) ==
  {[b |-> b, f |-> Received(b, e, requestMAC, timersOnly)] :
     b \in PeerBytes(requestMAC), e \in BOOLEAN}
  \cup {[b |-> NoBytes, f |-> g] : g \in {x \in Frames : ~x.unpacks}}

InitSession ==
  /\ InIdle
  /\ OutIdle
  /\ tsigTimersOnly \in BOOLEAN
  /\ tsigRequestMAC \in SessInitMACs
  /\ lastGood = tsigRequestMAC
  /\ lastCall = NoCall
  /\ nCalls = 0

SessAlive == lastCall.w.out # "panic" /\ lastCall.r.out # "panic"

\* t.WriteMsg(m) on the session.
SessWriteMsg ==
  /\ nCalls < MaxCalls
  /\ SessAlive
  /\ \E m \in SessMsgs, genOK \in BOOLEAN, writeOK \in BOOLEAN :
       LET w == WriteMsg(m, tsigRequestMAC, tsigTimersOnly, genOK, writeOK)
           rt == IF w.bytes.some
                   THEN ReadMsg(Received(w.bytes, FALSE, tsigRequestMAC, tsigTimersOnly),
                                tsigTimersOnly)
                   ELSE NoRead
       IN /\ tsigRequestMAC' = w.mac
          /\ lastGood' = IF w.out = "ret" /\ w.err = Nil THEN w.bytes.mac ELSE lastGood
          /\ lastCall' = [op |-> "write", decoded |-> TRUE, signed |-> m.tsig.signed,
                          name |-> m.tsig.name, rerr |-> FALSE, msgMAC |-> w.bytes.mac,
                          macBefore |-> tsigRequestMAC, timersBefore |-> tsigTimersOnly,
                          w |-> w, r |-> NoRead, rt |-> rt]
  /\ nCalls' = nCalls + 1
  /\ UNCHANGED <<inVars, tsigTimersOnly, outVars>>

\* t.ReadMsg() on the session.
SessReadMsg ==
  /\ nCalls < MaxCalls
  /\ SessAlive
  /\ \E x \in SessReads(tsigRequestMAC, tsigTimersOnly) :
       LET r == ReadMsg(x.f, tsigTimersOnly)
       IN /\ lastGood' = IF r.out = "ret" /\ r.err = Nil /\ x.b.signed
                           THEN x.b.mac ELSE lastGood
          /\ lastCall' = [op |-> "read", decoded |-> x.f.unpacks /\ ~(x.f.rerr /\ x.f.n = 0),
                          signed |-> x.f.m.tsig.signed,
                          name |-> x.f.m.tsig.name, rerr |-> x.f.rerr, msgMAC |-> x.b.mac,
                          macBefore |-> tsigRequestMAC, timersBefore |-> tsigTimersOnly,
                          w |-> NoWrite, r |-> r, rt |-> NoRead]
  /\ nCalls' = nCalls + 1
  /\ UNCHANGED <<inVars, tsigTimersOnly, tsigRequestMAC, outVars>>

NextSession ==
  \/ SessReadMsg
  \/ SessWriteMsg

SpecSession == InitSession /\ [][NextSession]_vars

\* ---- the outbound responder ----
InitOut ==
  /\ InIdle
  /\ tsigTimersOnly = FALSE
  /\ SessIdle
  /\ OutIdle

\* Transfer.Out(w, q, a): make the channel and the reply, start the goroutine.
Out ==
  /\ outPc = "none"
  /\ outPc' = "ranging"
  /\ rAnswer' = << >>
  /\ UNCHANGED <<replies, fed, offer, chClosed>>
  /\ UNCHANGED <<inVars, tsigTimersOnly, sessVars>>

\* The zone producer sends an Envelope on the unbuffered channel and blocks
\* until the responder takes it.
ProducerOffer ==
  /\ outPc # "none"
  /\ ~chClosed
  /\ ~offer.some
  /\ Len(fed) < MaxEnvs
  /\ \E rr \in Answers : offer' = Envelope(rr, Nil)
  /\ UNCHANGED <<outPc, rAnswer, replies, fed, chClosed>>
  /\ UNCHANGED <<inVars, tsigTimersOnly, sessVars>>

\* Variant: the responder keeps ranging after a failed write.
OutServe_IgnoresWriteError ==
  /\ outPc = "ranging"
  /\ offer.some
  /\ \E writeOK \in BOOLEAN :
       /\ replies' = Append(replies, [Id |-> q.Id, Authoritative |-> TRUE,
                                      Answer |-> rAnswer \o offer.RR, ok |-> writeOK])
       /\ outPc' = "ranging"
  /\ rAnswer' = rAnswer \o offer.RR
  /\ fed' = Append(fed, offer)
  /\ offer' = NoEnv
  /\ UNCHANGED chClosed
  /\ UNCHANGED <<inVars, tsigTimersOnly, sessVars>>

\* One turn of `for x := range ch`: take the Envelope, append its records to
\* r.Answer, write r; return if the write fails.
OutServe ==
  /\ outPc = "ranging"
  /\ offer.some
  /\ \E writeOK \in BOOLEAN :
       /\ replies' = Append(replies, [Id |-> q.Id, Authoritative |-> TRUE,
                                      Answer |-> rAnswer \o offer.RR, ok |-> writeOK])
       /\ outPc' = IF writeOK THEN "ranging" ELSE "stopped"
  /\ rAnswer' = rAnswer \o offer.RR
  /\ fed' = Append(fed, offer)
  /\ offer' = NoEnv
  /\ UNCHANGED chClosed
  /\ UNCHANGED <<inVars, tsigTimersOnly, sessVars>>

\* The producer closes the channel.
ProducerClose ==
  /\ outPc # "none"
  /\ ~chClosed
  /\ ~offer.some
  /\ chClosed' = TRUE
  /\ UNCHANGED <<outPc, rAnswer, replies, fed, offer>>
  /\ UNCHANGED <<inVars, tsigTimersOnly, sessVars>>

\* The range loop ends on the closed channel and the goroutine returns.
OutRangeEnd ==
  /\ outPc = "ranging"
  /\ chClosed
  /\ outPc' = "ended"
  /\ UNCHANGED <<rAnswer, replies, fed, offer, chClosed>>
  /\ UNCHANGED <<inVars, tsigTimersOnly, sessVars>>

NextOut ==
  \/ Out
  \/ ProducerOffer
  \/ OutServe
  \/ ProducerClose
  \/ OutRangeEnd

SpecOut == InitOut /\ [][NextOut]_vars

\* ---- reading the histories ----
\* ReadMsg call k returned a message and a nil error.
ReadOK(k) == reads[k].r.out = "ret" /\ reads[k].r.err = Nil
\* ReadMsg call k returned an error.
ReadFailed(k) == reads[k].r.out = "ret" /\ reads[k].r.err # Nil
\* The message ReadMsg call k returned.
MsgOf(k) == reads[k].r.m
IdOK(k) == ReadOK(k) /\ MsgOf(k).Id = q.Id
IdBad(k) == ReadOK(k) /\ MsgOf(k).Id # q.Id
StartsSOA(k) == Len(MsgOf(k).Answer) > 0 /\ MsgOf(k).Answer[1] = TypeSOA
EndsSOA(k) ==
  Len(MsgOf(k).Answer) > 0 /\ MsgOf(k).Answer[Len(MsgOf(k).Answer)] = TypeSOA
\* Message k is the closing message: streaming has begun by message k and
\* its last record is a SOA.
Closing(k) ==
  /\ IdOK(k)
  /\ EndsSOA(k)
  /\ IF k = 1 THEN Len(MsgOf(k).Answer) > 1 ELSE TRUE
\* ReadMsg result k is one that ends the transfer.
TerminalRead(k) ==
  \/ ReadFailed(k)
  \/ IdBad(k)
  \/ (k = 1 /\ IdOK(k) /\ ~StartsSOA(k))
  \/ Closing(k)
\* Envelope k is a terminal Envelope.
TerminalEnv(k) == sent[k].Error # Nil \/ Closing(k)
Exited == pc \in {"closeChan", "closeConn", "done"} /\ ~panicked

\* ---- C1 ----
\* C1: when the caller receives every Envelope and the ReadMsg results hold a
\* read failure, an id mismatch, a missing leading SOA or a closing SOA, the
\* worker sends exactly one terminal Envelope, sends nothing after it, and
\* then closes the channel exactly once and the connection exactly once.
C1_State ==
  /\ \A k \in 1..Len(sent) : TerminalEnv(k) => k = Len(sent)
  /\ \A k \in 1..Len(sent) : TerminalEnv(k) <=> TerminalRead(k)
  /\ chanCloses <= 1 /\ connCloses <= 1 /\ connCloses <= chanCloses
  /\ Exited => Len(sent) > 0 /\ TerminalEnv(Len(sent))
  /\ pc = "done" => chanCloses = 1 /\ connCloses = 1 /\ tConn = "closed"
  /\ (Len(sent) > 0 /\ TerminalEnv(Len(sent))) => pc \in {"closeChan", "closeConn", "done"}
C1_Step ==
  /\ chanCloses > 0 => sent' = sent /\ reads' = reads /\ wire' = wire
  /\ (Len(sent) > 0 /\ TerminalEnv(Len(sent))) => sent' = sent /\ reads' = reads
C1_Live ==
  (Len(reads) > 0 /\ reads[Len(reads)].r.out = "ret" /\ TerminalRead(Len(reads)))
    ~> (pc = "done" \/ consumer = "gone")
C1_OneTerminalThenClosed == []C1_State /\ [][C1_Step]_vars /\ C1_Live
\* A transfer of two messages has ended: one terminal Envelope, both closes done.
C1_Witness ==
  /\ pc = "done" /\ Len(sent) = 2 /\ TerminalEnv(2) /\ ~TerminalEnv(1)
  /\ chanCloses = 1 /\ connCloses = 1

\* ---- C2 ----
\* C2: whenever In has returned a nil error, exactly one inbound worker has
\* been started on the caller's channel, whatever the query type.
C2_NilMeansWorker == inErr = Nil => workers = 1

\* ---- C3 ----
\* C3: once the transfer has ended, no connection that In dialed for it is
\* still open (the dialed connection is the one the worker reads and closes).
C3_DialedConnReleased == pc = "done" => dialed # "open"

\* ---- C4 ----
Ended == pc \in {"closeChan", "closeConn", "done"}
\* The Envelope of ReadMsg call k is e: already handed over, or the one the
\* worker is blocked sending.
EnvelopeIs(k, e) ==
  IF Len(sent) >= k THEN sent[k] = e
  ELSE k = Len(sent) + 1 /\ pc = "send" /\ pending = e
\* C4: if message N is the first whose identifier differs from the request's,
\* whatever its answer section, Envelopes 1..N-1 carry no error, Envelope N
\* carries ErrId with message N's answer section, and ReadMsg is not called
\* again.
C4_IdMismatch ==
  \A N \in 1..Len(reads) :
    IdBad(N) =>
      /\ \A k \in 1..(N - 1) : k <= Len(sent) /\ sent[k].Error = Nil
      /\ EnvelopeIs(N, Envelope(MsgOf(N).Answer, ErrId))
      /\ Len(reads) = N
      /\ pc # "read" /\ ~panicked
      /\ Len(sent) = N => Ended
\* The first message has a foreign id and no leading SOA, and its Envelope
\* has been received.
C4_Witness ==
  /\ Len(reads) = 1 /\ IdBad(1) /\ ~StartsSOA(1)
  /\ Len(sent) = 1 /\ sent[1].Error = ErrId

\* ---- C5 ----
\* C5: if the first message has the expected identifier and its answer
\* section does not start with a SOA (or is empty), exactly one Envelope is
\* emitted, carrying ErrSoa and that answer section; no further message is
\* read and the channel is then closed.
C5_MissingLeadingSOA ==
  (Len(reads) >= 1 /\ IdOK(1) /\ ~StartsSOA(1)) =>
      /\ Len(reads) = 1
      /\ Len(sent) <= 1
      /\ EnvelopeIs(1, Envelope(MsgOf(1).Answer, ErrSoa))
      /\ pc # "read" /\ ~panicked
      /\ Len(sent) = 1 => Ended
      /\ pc = "done" => chanCloses = 1
\* An empty first answer section was reported and the channel closed.
C5_Witness ==
  /\ Len(reads) = 1 /\ IdOK(1) /\ MsgOf(1).Answer = << >>
  /\ Len(sent) = 1 /\ sent[1].Error = ErrSoa /\ chanCloses = 1

\* ---- C6 ----
\* The first message has the expected identifier and is a lone SOA.
LoneSOA == Len(reads) >= 1 /\ IdOK(1) /\ MsgOf(1).Answer = <<TypeSOA>>
\* C6 as stated: after a first message that is a lone SOA the caller gets
\* exactly one Envelope and the channel closes in success, the worker not
\* waiting for a further message.
C6_LoneSOAEndsTransfer ==
  (LoneSOA /\ Len(sent) >= 1) =>
      /\ sent[1] = Envelope(<<TypeSOA>>, Nil)
      /\ Len(reads) = 1
      /\ Ended
\* C6 amended: a first message that is a lone SOA yields an Envelope with
\* that SOA and no error, the channel stays open, and the worker goes on to
\* read a further message; the channel is closed only after a later message.
C6_LoneSOAKeepsOpen ==
  LoneSOA =>
      /\ EnvelopeIs(1, Envelope(<<TypeSOA>>, Nil))
      /\ Len(reads) = 1 => chanCloses = 0 /\ pc \in {"send", "read"}
      /\ (Len(reads) = 1 /\ Len(sent) = 1) => pc = "read"
      /\ chanCloses > 0 => Len(reads) >= 2
\* The lone SOA has been received and the worker is back at ReadMsg with the
\* channel open.
C6_Witness ==
  LoneSOA /\ Len(reads) = 1 /\ Len(sent) = 1 /\ pc = "read" /\ chanCloses = 0

\* ---- C7 ----
\* C7: a first message that is a lone SOA gives an Envelope with no error, is
\* not the closing message, and the worker reads on; the transfer then ends
\* in success on the first later message whose last record is a SOA.
C7_LoneSOAThenStream ==
  LoneSOA =>
      /\ Len(sent) >= 1 => sent[1] = Envelope(MsgOf(1).Answer, Nil)
      /\ ~returning \/ Len(reads) >= 2
      /\ \A k \in 2..Len(reads) :
           IdOK(k) =>
             /\ EnvelopeIs(k, Envelope(MsgOf(k).Answer, Nil))
             /\ IF EndsSOA(k)
                  THEN /\ Len(reads) = k
                       /\ pc # "read" /\ ~panicked
                       /\ Len(sent) = k => Ended
                  ELSE (Len(sent) = k /\ Len(reads) = k) => pc = "read"
\* Lone SOA, then a message that does not end in SOA, then one that does:
\* three Envelopes without error and the transfer is over.
C7_Witness ==
  /\ LoneSOA /\ Len(reads) = 3 /\ Len(sent) = 3 /\ pc = "done"
  /\ IdOK(2) /\ ~EndsSOA(2) /\ IdOK(3) /\ EndsSOA(3)
  /\ \A k \in 1..3 : sent[k].Error = Nil

\* ---- C8 ----
\* C8: a first message with the expected identifier and more than one record,
\* starting and ending with a SOA, gives exactly one Envelope with the whole
\* answer section and no error; nothing more is read and the transfer ends
\* in success.
C8_SingleMessageTransfer ==
  (Len(reads) >= 1 /\ IdOK(1) /\ Len(MsgOf(1).Answer) > 1
     /\ StartsSOA(1) /\ EndsSOA(1)) =>
      /\ Len(reads) = 1
      /\ Len(sent) <= 1
      /\ EnvelopeIs(1, Envelope(MsgOf(1).Answer, Nil))
      /\ pc # "read" /\ ~panicked
      /\ Len(sent) = 1 => Ended
\* A whole zone in one message has been delivered and the worker has exited.
C8_Witness ==
  /\ Len(reads) = 1 /\ IdOK(1) /\ Len(MsgOf(1).Answer) > 1
  /\ StartsSOA(1) /\ EndsSOA(1)
  /\ sent = <<Envelope(MsgOf(1).Answer, Nil)>> /\ pc = "done"

\* ---- C9 ----
\* C9: at most one Envelope on the channel has a non-nil error, and it is the
\* last one sent before the channel is closed; every Envelope before it has
\* a nil error.
C9_State ==
  /\ \A k \in 1..Len(sent) : sent[k].Error # Nil => k = Len(sent) /\ pc # "read"
  /\ Cardinality({k \in 1..Len(sent) : sent[k].Error # Nil}) <= 1
  /\ (pending.some /\ pending.Error # Nil) => returning
C9_Step ==
  (Len(sent) > 0 /\ sent[Len(sent)].Error # Nil) => sent' = sent /\ pending' = NoEnv
C9_ErrorOnlyLast == []C9_State /\ [][C9_Step]_vars
\* Two clean Envelopes, then one with an error, then the close.
C9_Witness ==
  /\ Len(sent) = 3 /\ sent[3].Error # Nil /\ sent[1].Error = Nil /\ sent[2].Error = Nil
  /\ chanCloses = 1

\* ---- C10 ----
\* C10: tsigTimersOnly goes from false to true once, at the first message
\* that passes the identifier and leading-SOA checks, and never back; it
\* stays false if the first message fails to read, has the wrong identifier
\* or lacks the leading SOA.  So ReadMsg handles the first message with
\* tsigTimersOnly = false and every later one with tsigTimersOnly = true.
C10_State ==
  /\ tsigTimersOnly <=> (Len(reads) >= 1 /\ IdOK(1) /\ StartsSOA(1))
  /\ \A k \in 1..Len(reads) : reads[k].timersOnly <=> (k > 1)
C10_Step == tsigTimersOnly => tsigTimersOnly'
C10_TimersOnlyOnce == []C10_State /\ [][C10_Step]_vars
\* Three messages read: the first with the flag down, the third with it up.
C10_Witness ==
  /\ Len(reads) = 3 /\ tsigTimersOnly
  /\ ~reads[1].timersOnly /\ reads[2].timersOnly /\ reads[3].timersOnly

\* ---- C13 ----
\* Message k is handled in the streaming state: any message after the first,
\* or a first message of more than one record that opens with a SOA.
Streaming(k) ==
  IdOK(k) /\ (k >= 2 \/ (StartsSOA(k) /\ Len(MsgOf(k).Answer) > 1))
\* C13: once streaming, each message with the expected identifier yields one
\* Envelope with its answer section and no error, in arrival order; the
\* transfer ends in success exactly at the first such message whose last
\* record is a SOA, and a message not ending in a SOA (an empty one
\* included) never ends it.
C13_StreamingUntilClosingSOA ==
  \A k \in 1..Len(reads) :
    Streaming(k) =>
      /\ EnvelopeIs(k, Envelope(MsgOf(k).Answer, Nil))
      /\ \A j \in 1..(k - 1) : Streaming(j) => ~EndsSOA(j)
      /\ IF EndsSOA(k)
           THEN /\ Len(reads) = k
                /\ pc \in {"send", "closeChan", "closeConn", "done"}
                /\ pc = "send" => returning
           ELSE Len(reads) = k =>
                  /\ pc \in {"send", "read"}
                  /\ ~returning
                  /\ chanCloses = 0
\* A streaming message with an empty answer section went by, and the next
\* message, ending in a SOA, closed the transfer.
C13_Witness ==
  /\ Len(reads) = 3 /\ Len(sent) = 3 /\ pc = "done"
  /\ Streaming(2) /\ MsgOf(2).Answer = << >>
  /\ Streaming(3) /\ EndsSOA(3)
  /\ sent[2] = Envelope(<< >>, Nil) /\ sent[3] = Envelope(MsgOf(3).Answer, Nil)

\* ---- C14 ----
\* C14: whenever ReadMsg returns an error, InAxfr emits exactly one Envelope
\* with nil records and that error, even if ReadMsg also returned a decoded
\* message, and stops: no further ReadMsg, and the channel is closed.
C14_ReadFailure ==
  \A k \in 1..Len(reads) :
    ReadFailed(k) =>
      /\ EnvelopeIs(k, Envelope(<< >>, reads[k].r.err))
      /\ Len(reads) = k
      /\ Len(sent) <= k
      /\ pc \in {"send", "closeChan", "closeConn", "done"}
      /\ pc = "send" => returning
      /\ pc = "done" => chanCloses = 1
\* ReadMsg returned ErrSecret together with a message that has records; the
\* Envelope went out without them and the channel is closed.
C14_Witness ==
  /\ Len(reads) = 1 /\ ReadFailed(1) /\ reads[1].r.hasMsg
  /\ Len(reads[1].r.m.Answer) > 0
  /\ sent = <<Envelope(<< >>, ErrSecret)>> /\ chanCloses = 1

\* ---- C15 ----
\* C15: every transport error of the connection read makes ReadMsg return an
\* error, with zero bytes or with some; it is never discarded because the
\* bytes that came with it decode and verify.
C15_TransportErrorNeverDiscarded ==
  (Len(reads) > 0 /\ wire.rerr) => ~ReadOK(Len(reads))

\* ---- C20 ----
\* C20: Envelope delivery is a rendezvous: message k+1 is read only after the
\* caller has received Envelope k; and once the caller has stopped receiving
\* before the terminal Envelope, the worker stays blocked on its send, so the
\* channel is never closed and the connection is never closed.
StoppedEarly ==
  consumer = "gone" /\ ~(Len(sent) > 0 /\ TerminalEnv(Len(sent)))
C20_RendezvousAndLeak ==
  /\ Len(reads) <= Len(sent) + 1
  /\ StoppedEarly => chanCloses = 0 /\ connCloses = 0 /\ tConn = "open"

\* ---- C11 ----
\* C11: after any sequence of ReadMsg and WriteMsg calls on one session the
\* stored request MAC is the MAC of the latest signed message processed
\* successfully: a successful signed read or write replaces it with that
\* message's MAC, a failed call or an unsigned message leaves it alone.
C11_StoredMACIsLatest == tsigRequestMAC = lastGood

\* ---- C12 ----
\* The latest call is a WriteMsg that built signed bytes.
WroteSigned == lastCall.op = "write" /\ lastCall.w.bytes.some /\ lastCall.w.bytes.signed
UnsignedCall ==
  lastCall.op # "none" /\ lastCall.decoded /\ ~lastCall.signed /\ ~lastCall.rerr
\* C16: an unsigned message takes the unsigned path: ReadMsg returns it with
\* a nil error without lookup or verification, WriteMsg packs and writes it;
\* neither call crashes and neither changes the stored request MAC.
C16_UnsignedPath ==
  UnsignedCall =>
    /\ lastCall.r.out # "panic" /\ lastCall.w.out # "panic"
    /\ tsigRequestMAC = lastCall.macBefore
    /\ lastCall.op = "read" => lastCall.r.err = Nil /\ ~lastCall.r.verified
    /\ lastCall.op = "write" => lastCall.w.bytes.some /\ ~lastCall.w.bytes.signed

\* ---- C17 ----
\* The latest call handled a signed message whose signer has no secret.
UnknownKeyCall ==
  /\ lastCall.op # "none" /\ lastCall.decoded /\ lastCall.signed
  /\ lastCall.name \notin TsigSecret
\* C17: for a signed message whose signer is not in the key store, WriteMsg
\* returns ErrSecret with nothing written and ReadMsg returns ErrSecret
\* without calling the verifier; the stored request MAC and tsigTimersOnly
\* are unchanged by either.
C17_UnknownKey ==
  UnknownKeyCall =>
    /\ tsigRequestMAC = lastCall.macBefore
    /\ tsigTimersOnly = lastCall.timersBefore
    /\ lastCall.op = "write" =>
         /\ lastCall.w.out = "ret" /\ lastCall.w.err = ErrSecret
         /\ ~lastCall.w.wrote /\ ~lastCall.w.bytes.some
    /\ lastCall.op = "read" =>
         /\ lastCall.r.out = "ret" /\ lastCall.r.err = ErrSecret
         /\ ~lastCall.r.verified
\* After an earlier signed write moved the chain, a write under an unknown
\* signer was refused.
C17_Witness ==
  /\ UnknownKeyCall /\ lastCall.op = "write" /\ lastCall.w.err = ErrSecret
  /\ lastCall.macBefore \notin SessInitMACs /\ nCalls >= 2

\* ---- C18 ----
\* C18: while every write succeeds the responder writes one authoritative
\* reply per Envelope, in order, and the answer section of the k-th reply is
\* exactly the records of the k-th Envelope.
C18_ReplyIsEnvelope ==
  (\A k \in 1..Len(replies) : replies[k].ok) =>
    /\ Len(replies) = Len(fed)
    /\ \A k \in 1..Len(replies) :
         replies[k].Authoritative /\ replies[k].Answer = fed[k].RR

\* ---- C19 ----
\* C19: after the first failed write the responder's goroutine has stopped
\* without telling the producer: it writes no further reply and receives no
\* further Envelope, so a later send of the producer never completes.
C19_State ==
  outPc = "stopped" =>
    /\ Len(replies) >= 1 /\ ~replies[Len(replies)].ok
    /\ \A k \in 1..(Len(replies) - 1) : replies[k].ok
    /\ Len(fed) = Len(replies)
C19_Step ==
  /\ outPc = "stopped" =>
       /\ outPc' = "stopped"
       /\ replies' = replies /\ fed' = fed /\ rAnswer' = rAnswer
       /\ offer.some => offer' = offer
  /\ (Len(replies) >= 1 /\ ~replies[Len(replies)].ok) => replies' = replies /\ fed' = fed
C19_StopsSilently == []C19_State /\ [][C19_Step]_vars
\* The second write failed, and the producer is blocked on its third send.
C19_Witness ==
  /\ outPc = "stopped" /\ Len(replies) = 2 /\ replies[1].ok /\ ~replies[2].ok
  /\ offer.some /\ ~chClosed
====
